---------------------------- MODULE Spec2Model ----------------------------
(***************************************************************************)
(* A model of the resume field-extraction engine of backend/               *)
(* clean_extractor.py: the document reader, the field extractors (email,   *)
(* phone, date of birth, gender), the name resolver and the orchestrator   *)
(* process_resume_file.                                                    *)
(*                                                                         *)
(* A text is a sequence of one-character strings.  The regular expressions *)
(* of the source are computed character by character, in the order in      *)
(* which Python's backtracking matcher tries its alternatives.  <<>> is    *)
(* "no match" inside the matchers; Null is Python's None.                  *)
(***************************************************************************)
EXTENDS Integers, Sequences, FiniteSets, TLC

VARIABLES
    text,   \* the text under construction: the input of an extractor, the content of a file
    nseg,   \* how many segments the text was built from
    pad,    \* how many blocks of filler lines the text was padded with
    pc,     \* where the run is: "build" until an operation is called
    res,    \* what the operation returned
    doc,    \* the document as read_any_file read it
    ner,    \* nlp(header_text).ents: the PERSON entities the language model found
    calls   \* the field extractors called so far, in order

vars == <<text, nseg, pad, pc, res, doc, ner, calls>>

(***************************************************************************)
(* Characters and strings                                                  *)
(***************************************************************************)
UpperSeq == <<"A", "B", "C", "D", "E", "F", "G", "H", "I", "J", "K", "L", "M", "N", "O", "P", "Q", "R", "S", "T", "U", "V", "W", "X", "Y", "Z">>
LowerSeq == <<"a", "b", "c", "d", "e", "f", "g", "h", "i", "j", "k", "l", "m", "n", "o", "p", "q", "r", "s", "t", "u", "v", "w", "x", "y", "z">>
DigitSeq == <<"0", "1", "2", "3", "4", "5", "6", "7", "8", "9">>

Upper == {UpperSeq[i] : i \in 1..Len(UpperSeq)}
Lower == {LowerSeq[i] : i \in 1..Len(LowerSeq)}
Letters == Upper \cup Lower
Digits == {DigitSeq[i] : i \in 1..Len(DigitSeq)}
Space == {" ", "\n", "\t"}
Word == Letters \cup Digits \cup {"_"}

ToLower(c) == IF c \in Upper THEN LowerSeq[CHOOSE i \in 1..Len(UpperSeq) : UpperSeq[i] = c] ELSE c
ToUpper(c) == IF c \in Lower THEN UpperSeq[CHOOSE i \in 1..Len(LowerSeq) : LowerSeq[i] = c] ELSE c
DigitVal(c) == (CHOOSE i \in 1..Len(DigitSeq) : DigitSeq[i] = c) - 1
Digit(n) == DigitSeq[n + 1]

Null == <<"<None>">>

Min(a, b) == IF a < b THEN a ELSE b

\* a, or b when a is "no match"
OrElse(a, b) == IF a # <<>> THEN a ELSE b

\* the first of a set of positions, none when the set is empty
First(S, none) == IF S = {} THEN none ELSE CHOOSE i \in S : \A j \in S : i <= j

\* the character at position i, "" past either end
Ch(t, i) == IF i >= 1 /\ i <= Len(t) THEN t[i] ELSE ""

\* the number of consecutive characters of class C from position i on
RunLen(t, i, C) ==
    IF i > Len(t) THEN 0
    ELSE (CHOOSE j \in i..Len(t) + 1 :
              (j > Len(t) \/ t[j] \notin C) /\ \A k \in i..j - 1 : t[k] \in C) - i

\* the number of consecutive characters outside class C from position i on
RunLenNot(t, i, C) ==
    IF i > Len(t) THEN 0
    ELSE (CHOOSE j \in i..Len(t) + 1 :
              (j > Len(t) \/ t[j] \in C) /\ \A k \in i..j - 1 : t[k] \notin C) - i

\* the number of consecutive characters of class C from position i backwards
RunLenBack(t, i, C) ==
    IF i < 1 THEN 0
    ELSE i - (CHOOSE j \in 0..i :
                  (j = 0 \/ t[j] \notin C) /\ \A k \in j + 1..i : t[k] \in C)

\* the literal w (given in lower case) stands at position i, letter case ignored
MatchesAtI(t, i, w) ==
    /\ i + Len(w) - 1 <= Len(t)
    /\ \A k \in 1..Len(w) : ToLower(t[i + k - 1]) = w[k]

\* of the labels ws from the n-th on, none a prefix of another, one stands at
\* position i: the position after it, or 0
RECURSIVE LabelEnd(_, _, _, _)
LabelEnd(t, i, ws, n) ==
    IF n > Len(ws) THEN 0
    ELSE IF MatchesAtI(t, i, ws[n]) THEN i + Len(ws[n])
    ELSE LabelEnd(t, i, ws, n + 1)

\* re.sub of every character outside class C by the one-character string rep
MapOutside(t, C, rep) == [i \in 1..Len(t) |-> IF t[i] \in C THEN t[i] ELSE rep]

\* re.sub of every character of class C by the one-character string rep
MapInside(t, C, rep) == [i \in 1..Len(t) |-> IF t[i] \in C THEN rep ELSE t[i]]

\* re.sub of every character of class C by the empty string
Delete(t, C) == SelectSeq(t, LAMBDA c : c \notin C)

\* re.sub of every character outside class C by the empty string
Keep(t, C) == SelectSeq(t, LAMBDA c : c \in C)

\* re.sub of every run of characters of class C by the one-character string
\* rep: the first of a run becomes rep, the others of the run go
CollapseRuns(t, C, rep) ==
    Delete([i \in 1..Len(t) |-> IF t[i] \notin C THEN t[i]
                                ELSE IF Ch(t, i - 1) \in C THEN "" ELSE rep], {""})

\* re.sub(r"\s+", " ", t)
CollapseBlanks(t) == CollapseRuns(t, Space, " ")

\* str.strip()
Strip(t) == SubSeq(t, 1 + RunLen(t, 1, Space), Len(t) - RunLenBack(t, Len(t), Space))

\* the text between the positions of a match m = <<first, last>>
Slice(t, m) == IF m = <<>> THEN <<>> ELSE SubSeq(t, m[1], m[2])
Span(g, e) == IF e > 0 THEN <<g, e>> ELSE <<>>

\* str.splitlines(), for the line break "\n"
RECURSIVE SplitLines(_, _)
SplitLines(t, i) ==
    IF i > Len(t) THEN <<>>
    ELSE <<SubSeq(t, i, i + RunLenNot(t, i, {"\n"}) - 1)>>
         \o SplitLines(t, i + RunLenNot(t, i, {"\n"}) + 1)

\* str.split(): the words between blanks
RECURSIVE Split(_, _)
Split(t, i) ==
    IF i > Len(t) THEN <<>>
    ELSE IF t[i] \in Space THEN Split(t, i + RunLen(t, i, Space))
    ELSE <<SubSeq(t, i, i + RunLenNot(t, i, Space) - 1)>> \o Split(t, i + RunLenNot(t, i, Space))

RECURSIVE Join(_, _)
Join(seq, sep) ==
    IF seq = <<>> THEN <<>>
    ELSE IF Len(seq) = 1 THEN seq[1]
    ELSE Join(SubSeq(seq, 1, Len(seq) \div 2), sep) \o sep
         \o Join(SubSeq(seq, Len(seq) \div 2 + 1, Len(seq)), sep)

Take(seq, n) == SubSeq(seq, 1, Min(n, Len(seq)))
LowerCase(w) == [i \in 1..Len(w) |-> ToLower(w[i])]
Contains(line, s) == \E i \in 1..Len(line) - Len(s) + 1 : SubSeq(line, i, i + Len(s) - 1) = s

(***************************************************************************)
(* extract_phone, normalize_phone                                          *)
(***************************************************************************)
PhoneLabels == <<<<"m", "o", "b", "i", "l", "e">>, <<"p", "h", "o", "n", "e">>, <<"c", "o", "n", "t", "a", "c", "t">>, <<"t", "e", "l">>, <<"c", "a", "l", "l">>>>
PhoneSep == {":", "-"}
PhoneClass == Digits \cup Space \cup {"-", "(", ")"}
LabelledMin == 10
LabelledMax == 15
RunMin == 10
RunMax == 13
MobileLen == 10
MobileFirst == {"6", "7", "8", "9"}

LastN(s, n) == IF Len(s) > n THEN SubSeq(s, Len(s) - n + 1, Len(s)) ELSE s
AcceptMobile(digits) == IF Len(digits) = MobileLen /\ digits[1] \in MobileFirst THEN digits ELSE Null

normalize_phone(phone_str) ==
    IF phone_str = <<>> \/ phone_str = Null THEN Null
    ELSE AcceptMobile(LastN(Keep(phone_str, Digits), MobileLen))

\* ([+]?[0-9\s\-\(\)]{10,15}) tried at position g: <<first, last>> or <<>>
PlusAt(t, g) == IF Ch(t, g) = "+" THEN 1 ELSE 0
PhoneGroup(g, plus, run) ==
    IF run >= LabelledMin THEN <<g, g + plus + Min(run, LabelledMax) - 1>> ELSE <<>>
PhoneGroupAt(t, g) == PhoneGroup(g, PlusAt(t, g), RunLen(t, g + PlusAt(t, g), PhoneClass))

\* \s* before the group, greedy: k blanks from r first, then fewer
RECURSIVE PhoneAfterSep(_, _, _)
PhoneAfterSep(t, r, k) ==
    OrElse(PhoneGroupAt(t, r + k), IF k = 0 THEN <<>> ELSE PhoneAfterSep(t, r, k - 1))

\* [:\-]? at q, taken first and then skipped
PhoneSepAt(t, q) ==
    OrElse(IF Ch(t, q) \in PhoneSep THEN PhoneAfterSep(t, q + 1, RunLen(t, q + 1, Space)) ELSE <<>>,
           PhoneAfterSep(t, q, RunLen(t, q, Space)))

\* \s* after the label that ends before p, greedy
RECURSIVE PhoneAfterLabel(_, _, _)
PhoneAfterLabel(t, p, k) ==
    OrElse(PhoneSepAt(t, p + k), IF k = 0 THEN <<>> ELSE PhoneAfterLabel(t, p, k - 1))

\* the labelled pattern anchored at i
PhoneFrom(t, p) == IF p = 0 THEN <<>> ELSE PhoneAfterLabel(t, p, RunLen(t, p, Space))
LabelledPhoneAt(t, i) == PhoneFrom(t, LabelEnd(t, i, PhoneLabels, 1))

\* re.search of the labelled pattern: group 1 of the leftmost match, or <<>>
LabelledPhoneScan(t) ==
    LabelledPhoneAt(t, First({i \in 1..Len(t) : LabelledPhoneAt(t, i) # <<>>}, Len(t) + 1))
LabelledPhone(t) == Slice(t, LabelledPhoneScan(t))

\* re.findall(r"\+?\d{10,13}", t) from position i on
RECURSIVE PhoneRuns(_, _)
RECURSIVE PhoneRunsAt(_, _, _)
PhoneRuns(t, i) ==
    PhoneRunsAt(t, First({j \in i..Len(t) : RunLen(t, j + PlusAt(t, j), Digits) >= RunMin}, 0),
                RunMax)
\* the match that starts at position j, of at most max digits, and those after it
PhoneRunsAt(t, j, max) ==
    IF j = 0 THEN <<>>
    ELSE <<SubSeq(t, j, j + PlusAt(t, j) + Min(RunLen(t, j + PlusAt(t, j), Digits), max) - 1)>>
         \o PhoneRuns(t, j + PlusAt(t, j) + Min(RunLen(t, j + PlusAt(t, j), Digits), max))

\* for c in candidates: return normalize_phone(c)
FirstOf(candidates) == IF candidates = <<>> THEN Null ELSE normalize_phone(candidates[1])

PhoneResult(t, match) ==
    IF match # <<>> THEN normalize_phone(match)
    ELSE FirstOf(PhoneRuns(MapOutside(t, Digits \cup {"+"}, " "), 1))

extract_phone(t) == PhoneResult(t, LabelledPhone(t))

(***************************************************************************)
(* extract_dob                                                             *)
(***************************************************************************)
DobLabels == <<<<"d", "o", "b">>, <<"d", "a", "t", "e", " ", "o", "f", " ", "b", "i", "r", "t", "h">>, <<"b", "i", "r", "t", "h", " ", "d", "a", "t", "e">>, <<"b", "o", "r", "n">>>>
DobLabelSep == Space \cup {":", "-"}
DateSep == {".", "/", "-"}
MonthYearSep == Space \cup {".", ",", "-"}
DayMaxDigits == 2
YearDigits == 4
MonthMinLetters == 3
MonthMaxLetters == 10

\* \d{4} at g: the last position matched, or 0
YearAt(t, g) == IF RunLen(t, g, Digits) >= YearDigits THEN g + YearDigits - 1 ELSE 0

\* \d{1,2}[./-]\d{1,2}[./-]\d{4} tried at position g: the last position matched, or 0
NumericMonth(t, g2, r2) ==
    IF r2 >= 1 /\ r2 <= DayMaxDigits /\ Ch(t, g2 + r2) \in DateSep THEN YearAt(t, g2 + r2 + 1) ELSE 0
NumericDay(t, g, r1) ==
    IF r1 >= 1 /\ r1 <= DayMaxDigits /\ Ch(t, g + r1) \in DateSep
    THEN NumericMonth(t, g + r1 + 1, RunLen(t, g + r1 + 1, Digits)) ELSE 0
NumericDateAt(t, g) == NumericDay(t, g, RunLen(t, g, Digits))

\* \d{1,2}\s+[A-Za-z]{3,10}[.,\s-]*\d{4} tried at position g: the last position matched, or 0
MonthWord(t, g2, nl) ==
    IF nl >= MonthMinLetters /\ nl <= MonthMaxLetters
    THEN YearAt(t, g2 + nl + RunLen(t, g2 + nl, MonthYearSep)) ELSE 0
MonthBlank(t, g1, ws) == IF ws >= 1 THEN MonthWord(t, g1 + ws, RunLen(t, g1 + ws, Letters)) ELSE 0
MonthDay(t, g, r1) ==
    IF r1 >= 1 /\ r1 <= DayMaxDigits THEN MonthBlank(t, g + r1, RunLen(t, g + r1, Space)) ELSE 0
MonthDateAt(t, g) == MonthDay(t, g, RunLen(t, g, Digits))

DateAt(t, g, shape) == IF shape = 1 THEN NumericDateAt(t, g) ELSE MonthDateAt(t, g)

\* a labelled pattern anchored at i: <<first, last>> of group 1, or <<>>
DobAfterSep(t, g, shape) == Span(g, DateAt(t, g, shape))
DobAfterLabel(t, p, shape) ==
    IF p = 0 \/ RunLen(t, p, DobLabelSep) = 0 THEN <<>>
    ELSE DobAfterSep(t, p + RunLen(t, p, DobLabelSep), shape)
LabelledDobAt(t, i, shape) == DobAfterLabel(t, LabelEnd(t, i, DobLabels, 1), shape)

\* a general pattern anchored at g, between two \b
Bounded(t, g, e) ==
    IF e > 0 /\ Ch(t, g - 1) \notin Word /\ Ch(t, e + 1) \notin Word THEN <<g, e>> ELSE <<>>
GeneralDobAt(t, g, shape) == Bounded(t, g, DateAt(t, g, shape))

DobAt(t, i, labelled, shape) ==
    IF labelled THEN LabelledDobAt(t, i, shape) ELSE GeneralDobAt(t, i, shape)

\* re.search: the leftmost match, as <<first, last>>
DobScan(t, labelled, shape) ==
    DobAt(t, First({i \in 1..Len(t) : DobAt(t, i, labelled, shape) # <<>>}, Len(t) + 1),
          labelled, shape)
SearchDob(t, labelled, shape) == Slice(t, DobScan(t, labelled, shape))

\* dob_indicators, then general_patterns: <<labelled, shape>>
DobPatterns == << <<TRUE, 1>>, <<TRUE, 2>>, <<FALSE, 1>>, <<FALSE, 2>> >>

RECURSIVE DobSearches(_, _)
DobSearches(t, n) ==
    IF n > Len(DobPatterns) THEN Null
    ELSE OrElse(SearchDob(t, DobPatterns[n][1], DobPatterns[n][2]), DobSearches(t, n + 1))

extract_dob(t) == DobSearches(t, 1)

(***************************************************************************)
(* normalize_dob: datetime.strptime over the ordered list of formats       *)
(***************************************************************************)
MonthNames == <<<<"j", "a", "n", "u", "a", "r", "y">>, <<"f", "e", "b", "r", "u", "a", "r", "y">>, <<"m", "a", "r", "c", "h">>, <<"a", "p", "r", "i", "l">>, <<"m", "a", "y">>, <<"j", "u", "n", "e">>, <<"j", "u", "l", "y">>,
                <<"a", "u", "g", "u", "s", "t">>, <<"s", "e", "p", "t", "e", "m", "b", "e", "r">>, <<"o", "c", "t", "o", "b", "e", "r">>, <<"n", "o", "v", "e", "m", "b", "e", "r">>, <<"d", "e", "c", "e", "m", "b", "e", "r">>>>
MonthAbbrs == <<<<"j", "a", "n">>, <<"f", "e", "b">>, <<"m", "a", "r">>, <<"a", "p", "r">>, <<"m", "a", "y">>, <<"j", "u", "n">>, <<"j", "u", "l">>,
                <<"a", "u", "g">>, <<"s", "e", "p">>, <<"o", "c", "t">>, <<"n", "o", "v">>, <<"d", "e", "c">>>>

\* a format is a sequence of directives ("d", "m", "Y", "B", "b"), "ws" (a blank of
\* the format, which strptime matches as \s+) and literal characters
FormatsNoIso == << <<"d", "ws", "B", "ws", "Y">>,
                   <<"d", "ws", "b", "ws", "Y">>,
                   <<"d", "/", "m", "/", "Y">>,
                   <<"d", "-", "m", "-", "Y">>,
                   <<"d", ".", "m", ".", "Y">> >>

Formats == << <<"d", "ws", "B", "ws", "Y">>,
              <<"d", "ws", "b", "ws", "Y">>,
              <<"d", "/", "m", "/", "Y">>,
              <<"d", "-", "m", "-", "Y">>,
              <<"Y", "-", "m", "-", "d">>,
              <<"d", ".", "m", ".", "Y">> >>

Num2(t, p) == 10 * DigitVal(t[p]) + DigitVal(t[p + 1])
Num4(t, p) == 1000 * DigitVal(t[p]) + 100 * DigitVal(t[p + 1]) + Num2(t, p + 2)

\* the alternatives of one item of a format at position p, in the order the
\* matcher tries them, each <<length, field, value>>
DayAlts(t, p) ==
    (IF \/ Ch(t, p) = "3" /\ Ch(t, p + 1) \in {"0", "1"}
        \/ Ch(t, p) \in {"1", "2"} /\ Ch(t, p + 1) \in Digits
        \/ Ch(t, p) = "0" /\ Ch(t, p + 1) \in Digits \ {"0"}
     THEN << <<2, "d", Num2(t, p)>> >> ELSE <<>>)
    \o (IF Ch(t, p) \in Digits \ {"0"} THEN << <<1, "d", DigitVal(t[p])>> >> ELSE <<>>)
    \o (IF Ch(t, p) = " " /\ Ch(t, p + 1) \in Digits \ {"0"} THEN << <<2, "d", DigitVal(t[p + 1])>> >> ELSE <<>>)

MonthAlts(t, p) ==
    (IF \/ Ch(t, p) = "1" /\ Ch(t, p + 1) \in {"0", "1", "2"}
        \/ Ch(t, p) = "0" /\ Ch(t, p + 1) \in Digits \ {"0"}
     THEN << <<2, "m", Num2(t, p)>> >> ELSE <<>>)
    \o (IF Ch(t, p) \in Digits \ {"0"} THEN << <<1, "m", DigitVal(t[p])>> >> ELSE <<>>)

YearAlts(t, p) ==
    IF RunLen(t, p, Digits) >= YearDigits THEN << <<YearDigits, "y", Num4(t, p)>> >> ELSE <<>>

\* of the month names from the n-th on, none a prefix of another, the one at p
RECURSIVE NameAlts(_, _, _, _)
NameAlts(t, p, names, n) ==
    IF n > Len(names) THEN <<>>
    ELSE IF MatchesAtI(t, p, names[n]) THEN << <<Len(names[n]), "m", n>> >>
    ELSE NameAlts(t, p, names, n + 1)

BlankAlts(t, p) == [k \in 1..RunLen(t, p, Space) |-> <<RunLen(t, p, Space) + 1 - k, "none", 0>>]

ItemAlts(t, p, item) ==
    CASE item = "d" -> DayAlts(t, p)
      [] item = "m" -> MonthAlts(t, p)
      [] item = "Y" -> YearAlts(t, p)
      [] item = "B" -> NameAlts(t, p, MonthNames, 1)
      [] item = "b" -> NameAlts(t, p, MonthAbbrs, 1)
      [] item = "ws" -> BlankAlts(t, p)
      [] OTHER -> IF Ch(t, p) = item THEN << <<1, "none", 0>> >> ELSE <<>>

\* format_regex.match: the first way, in the matcher's order, to match the items
\* k.. of fmt from position p: <<position after the match, fields>>, or <<>>
RECURSIVE StrpFrom(_, _, _, _)
RECURSIVE StrpTry(_, _, _, _, _, _)
StrpPick(alt, r, next) ==
    IF r # <<>> THEN <<r[1], [r[2] EXCEPT ![alt[2]] = alt[3]]>> ELSE next
StrpFrom(t, p, fmt, k) ==
    IF k > Len(fmt) THEN <<p, [d |-> 0, m |-> 0, y |-> 0, none |-> 0]>>
    ELSE StrpTry(t, p, fmt, k, ItemAlts(t, p, fmt[k]), 1)
StrpTry(t, p, fmt, k, alts, i) ==
    IF i > Len(alts) THEN <<>>
    ELSE StrpPick(alts[i], StrpFrom(t, p + alts[i][1], fmt, k + 1), StrpTry(t, p, fmt, k, alts, i + 1))

IsLeap(y) == y % 4 = 0 /\ (y % 100 # 0 \/ y % 400 = 0)
DaysInMonth(y, m) ==
    IF m = 2 THEN (IF IsLeap(y) THEN 29 ELSE 28)
    ELSE IF m \in {4, 6, 9, 11} THEN 30 ELSE 31
MinYear == 1

\* the date of a match r of a text of n characters: [y, m, d], or <<>> for ValueError
DateOf(r, n) ==
    IF r = <<>> THEN <<>>
    ELSE IF r[1] # n + 1 THEN <<>>
    ELSE IF r[2].y < MinYear \/ r[2].d > DaysInMonth(r[2].y, r[2].m) THEN <<>>
    ELSE [y |-> r[2].y, m |-> r[2].m, d |-> r[2].d]

\* datetime.strptime(t, fmt).date()
strptime(t, fmt) == DateOf(StrpFrom(t, 1, fmt, 1), Len(t))

isoformat(date) ==
    << Digit(date.y \div 1000), Digit((date.y \div 100) % 10), Digit((date.y \div 10) % 10),
       Digit(date.y % 10), "-", Digit(date.m \div 10), Digit(date.m % 10), "-",
       Digit(date.d \div 10), Digit(date.d % 10) >>

DobPunct == {".", ","}
CleanDob(dob_raw) == Strip(CollapseBlanks(MapInside(dob_raw, DobPunct, " ")))

\* for fmt in formats: the first format, from the n-th on, that parses
IsoOr(date, next) == IF date # <<>> THEN isoformat(date) ELSE next
RECURSIVE FirstFormat(_, _, _)
FirstFormat(dob_clean, formats, n) ==
    IF n > Len(formats) THEN Null
    ELSE IsoOr(strptime(dob_clean, formats[n]), FirstFormat(dob_clean, formats, n + 1))

normalize_dob(dob_raw) ==
    IF dob_raw = Null \/ dob_raw = <<>> THEN Null
    ELSE FirstFormat(CleanDob(dob_raw), Formats, 1)

NA == <<"N", "A">>
\* extract_entities, lines 313-314: the dob field of the record
\* the dob field without its default
AsIs(dob) == dob
OrNA(dob) == IF dob = Null THEN NA ELSE dob
DobField(t) == OrNA(normalize_dob(extract_dob(t)))

(***************************************************************************)
(* extract_email, extract_gender                                           *)
(***************************************************************************)
EmailLocal == Letters \cup Digits \cup {".", "_", "%", "+", "-"}
EmailDomain == Letters \cup Digits \cup {".", "-"}
TldMin == 2

\* the domain is greedy: of the k-th and earlier characters after the "@", the
\* last dot that two letters or more follow; the last position matched, or 0
RECURSIVE EmailTld(_, _, _)
EmailTld(t, at, k) ==
    IF k < 1 THEN 0
    ELSE IF t[at + 1 + k] = "." /\ RunLen(t, at + 2 + k, Letters) >= TldMin
    THEN at + 1 + k + RunLen(t, at + 2 + k, Letters)
    ELSE EmailTld(t, at, k - 1)

\* the pattern anchored at i, whose local part runs up to an "@"
EmailDomainAt(t, i, at) ==
    IF at > i /\ Ch(t, at) = "@" THEN EmailTld(t, at, RunLen(t, at + 1, EmailDomain) - 1) ELSE 0
EmailAt(t, i) == EmailDomainAt(t, i, i + RunLen(t, i, EmailLocal))

\* re.search: the leftmost match, found at position i; none from 0
EmailScan(t, i) == IF i = 0 THEN Null ELSE SubSeq(t, i, EmailAt(t, i))

extract_email(t) == EmailScan(t, First({i \in 1..Len(t) : EmailAt(t, i) > 0}, 0))

\* re.search(r"\bw\b", t, re.I) for a lower-case word w
HasWord(t, w) ==
    \E i \in 1..Len(t) :
        MatchesAtI(t, i, w) /\ Ch(t, i - 1) \notin Word /\ Ch(t, i + Len(w)) \notin Word

extract_gender(t) ==
    IF HasWord(t, <<"m", "a", "l", "e">>) THEN <<"M", "a", "l", "e">>
    ELSE IF HasWord(t, <<"f", "e", "m", "a", "l", "e">>) THEN <<"F", "e", "m", "a", "l", "e">>
    ELSE <<"N", "o", "t", " ", "S", "p", "e", "c", "i", "f", "i", "e", "d">>

(***************************************************************************)
(* extract_name                                                            *)
(***************************************************************************)
generic_stops == {
    <<"r", "e", "s", "u", "m", "e">>, <<"c", "u", "r", "r", "i", "c", "u", "l", "u", "m">>, <<"v", "i", "t", "a", "e">>, <<"c", "v">>, <<"b", "i", "o">>,
    <<"p", "r", "o", "f", "i", "l", "e">>, <<"s", "u", "m", "m", "a", "r", "y">>, <<"e", "d", "u", "c", "a", "t", "i", "o", "n">>, <<"w", "o", "r", "k">>,
    <<"e", "x", "p", "e", "r", "i", "e", "n", "c", "e">>, <<"s", "k", "i", "l", "l", "s">>, <<"p", "r", "o", "j", "e", "c", "t", "s">>, <<"c", "o", "n", "t", "a", "c", "t">>,
    <<"m", "o", "b", "i", "l", "e">>, <<"p", "h", "o", "n", "e">>, <<"e", "m", "a", "i", "l">>, <<"a", "d", "d", "r", "e", "s", "s">>, <<"l", "i", "n", "k", "e", "d", "i", "n">>,
    <<"g", "i", "t", "h", "u", "b">>, <<"l", "i", "n", "k">>, <<"t", "e", "c", "h", "n", "o", "l", "o", "g", "i", "e", "s">>, <<"t", "e", "c", "h", "n", "i", "c", "a", "l">>,
    <<"p", "e", "r", "s", "o", "n", "a", "l">>, <<"d", "e", "t", "a", "i", "l", "s">>, <<"d", "e", "c", "l", "a", "r", "a", "t", "i", "o", "n">>, <<"o", "b", "j", "e", "c", "t", "i", "v", "e">>,
    <<"c", "a", "r", "e", "e", "r">>, <<"p", "r", "o", "f", "e", "s", "s", "i", "o", "n", "a", "l">>, <<"a", "c", "a", "d", "e", "m", "i", "c">>, <<"h", "i", "s", "t", "o", "r", "y">>,
    <<"r", "e", "f", "e", "r", "e", "n", "c", "e">>, <<"r", "e", "f", "e", "r", "e", "n", "c", "e", "s">>, <<"r", "e", "f", "e", "r", "e", "e">>, <<"d", "e", "s", "i", "g", "n", "e", "r">>,
    <<"d", "e", "v", "e", "l", "o", "p", "e", "r">>, <<"e", "n", "g", "i", "n", "e", "e", "r">>, <<"m", "a", "n", "a", "g", "e", "r">>, <<"c", "o", "n", "s", "u", "l", "t", "a", "n", "t">>,
    <<"a", "n", "a", "l", "y", "s", "t">>, <<"h", "e", "a", "d">>, <<"l", "e", "a", "d">>, <<"e", "x", "e", "c", "u", "t", "i", "v", "e">>,
    <<"a", "s", "s", "i", "s", "t", "a", "n", "t">>, <<"a", "s", "s", "o", "c", "i", "a", "t", "e">>, <<"i", "n", "t", "e", "r", "n">>, <<"j", "o", "u", "r", "n", "a", "l", "i", "s", "t">>,
    <<"c", "o", "u", "n", "s", "e", "l", "o", "r">>, <<"p", "l", "a", "n", "t">>, <<"g", "r", "a", "p", "h", "i", "c">>, <<"t", "e", "a", "c", "h", "e", "r">>,
    <<"c", "l", "e", "r", "k">>, <<"o", "f", "f", "i", "c", "e", "r">>, <<"u", "n", "i", "v", "e", "r", "s", "i", "t", "y">>, <<"c", "o", "l", "l", "e", "g", "e">>,
    <<"s", "c", "h", "o", "o", "l">>, <<"a", "c", "a", "d", "e", "m", "y">>, <<"i", "n", "s", "t", "i", "t", "u", "t", "e">>, <<"o", "r", "g", "a", "n", "i", "z", "a", "t", "i", "o", "n">>,
    <<"i", "n", "c">>, <<"l", "t", "d">>, <<"c", "o", "r", "p">>, <<"g", "r", "o", "u", "p">>, <<"s", "e", "r", "v", "i", "c", "e", "s">>,
    <<"s", "o", "l", "u", "t", "i", "o", "n", "s">>, <<"l", "i", "m", "i", "t", "e", "d">>, <<"n", "a", "m", "e">>, <<"c", "a", "n", "d", "i", "d", "a", "t", "e">>,
    <<"m", "a", "c", "h", "i", "n", "e">>, <<"l", "e", "a", "r", "n", "i", "n", "g">>, <<"d", "e", "e", "p">>, <<"a", "r", "t", "i", "f", "i", "c", "i", "a", "l">>,
    <<"i", "n", "t", "e", "l", "l", "i", "g", "e", "n", "c", "e">>, <<"d", "a", "t", "a">>, <<"c", "a">>, <<"c", "p", "a">>, <<"b", "a", "c", "h", "e", "l", "o", "r">>,
    <<"m", "a", "s", "t", "e", "r">>, <<"p", "h", "d">>, <<"s", "t", "u", "d", "e", "n", "t">>, <<"g", "r", "a", "d", "u", "a", "t", "e">>, <<"m", "a">>,
    <<"b", "a">>, <<"b", "s">>, <<"m", "s">>, <<"b", "s", "c">>, <<"m", "s", "c">>, <<"b", "b", "a">>, <<"m", "b", "a">>,
    <<"e", "n", "g", "l", "i", "s", "h">>, <<"s", "p", "a", "n", "i", "s", "h">>, <<"f", "r", "e", "n", "c", "h">>, <<"g", "e", "r", "m", "a", "n">>,
    <<"l", "a", "n", "g", "u", "a", "g", "e">>, <<"m", "o", "t", "h", "e", "r">>, <<"f", "a", "t", "h", "e", "r">>, <<"p", "a", "r", "e", "n", "t">>,
    <<"b", "r", "o", "t", "h", "e", "r">>, <<"s", "i", "s", "t", "e", "r">>, <<"w", "i", "f", "e">>, <<"h", "u", "s", "b", "a", "n", "d">>, <<"d", "o", "g">>,
    <<"c", "a", "t">>, <<"p", "e", "t">>, <<"b", "r", "e", "e", "d">>, <<"t", "e", "r", "r", "i", "e", "r">>
}

structural_markers == {
    <<"s", "t", "r", "e", "e", "t">>, <<"r", "o", "a", "d">>, <<"l", "a", "n", "e">>, <<"a", "p", "t">>, <<"a", "p", "a", "r", "t", "m", "e", "n", "t">>,
    <<"h", "o", "u", "s", "e">>, <<"f", "l", "a", "t">>, <<"d", "i", "s", "t", "r", "i", "c", "t">>, <<"s", "t", "a", "t", "e">>, <<"p", "i", "n", "c", "o", "d", "e">>,
    <<"z", "i", "p">>, <<"n", "a", "g", "a", "r">>, <<"c", "o", "l", "o", "n", "y">>, <<"s", "e", "c", "t", "o", "r">>, <<"p", "r", "a", "d", "e", "s", "h">>,
    <<"i", "n", "d", "i", "a">>, <<"c", "o", "m", "p", "l", "e", "x">>, <<"b", "u", "i", "l", "d", "i", "n", "g">>, <<"f", "l", "o", "o", "r">>, <<"m", "a", "r", "g">>
}
HeaderLines == 20
HeuristicLines == 10
MinWords == 2
MaxWords == 4
Forbidden == Digits \cup {",", "@", "/", "(", ")"}
LineForbidden == Digits \cup {",", "@", "/"}

\* the lines stripped, the blank ones left out
StripAll(ls) == Delete([i \in 1..Len(ls) |-> Strip(ls[i])], {<<>>})

\* [l.strip() for l in text.splitlines() if l.strip()]
NonBlankLines(t) == StripAll(SplitLines(t, 1))

\* "\n".join(lines[:20])
HeaderText(t) == Join(Take(NonBlankLines(t), HeaderLines), <<"\n">>)

Blocked(ws) == \E i \in 1..Len(ws) : LowerCase(ws[i]) \in generic_stops \cup structural_markers

\* Checks 2 and 3 of is_valid_candidate, on the words of the candidate
ValidWords(ws) == Len(ws) >= MinWords /\ Len(ws) <= MaxWords /\ ~Blocked(ws)

\* Check 4 of is_valid_candidate: the words of the line a candidate came from
ContextBlocked(source_line_context) ==
    Blocked(Split(MapOutside(source_line_context, Letters \cup Space, " "), 1))

\* is_valid_candidate without the check of the context line
ValidNoContext(candidate_str, source_line_context) ==
    /\ candidate_str # <<>>
    /\ \A i \in 1..Len(candidate_str) : candidate_str[i] \notin Forbidden
    /\ ValidWords(Split(candidate_str, 1))

is_valid_candidate(candidate_str, source_line_context) ==
    /\ candidate_str # <<>>
    /\ \A i \in 1..Len(candidate_str) : candidate_str[i] \notin Forbidden
    /\ ValidWords(Split(candidate_str, 1))
    /\ source_line_context # <<>> => ~ContextBlocked(source_line_context)

\* STRATEGY 1.  (?:Name|Candidate Name|Full Name)\s*[:\-]\s*([A-Za-z\s\.]+)
\* every alternative ends in "name": the match is decided where "name" stands
NameLabel == <<"n", "a", "m", "e">>
\* the separators of a label without the colon
DashOnly == {"-"}
LabelSep == {":", "-"}
LabelGroup == Letters \cup Space \cup {"."}

\* group 1 of the pattern with its label ending before position p, or Null:
\* the group starts at g, after blanks; with nothing there it is the last blank
LabelGroupRun(line, g, blanks, run) ==
    IF run > 0 THEN SubSeq(line, g, g + run - 1)
    ELSE IF blanks > 0 THEN SubSeq(line, g - 1, g - 1)
    ELSE Null
LabelGroupFrom(line, r, blanks) == LabelGroupRun(line, r + blanks, blanks, RunLen(line, r + blanks, LabelGroup))
LabelGroupSep(line, q) ==
    IF Ch(line, q) \notin LabelSep THEN Null ELSE LabelGroupFrom(line, q + 1, RunLen(line, q + 1, Space))
LabelGroupAfter(line, p) == LabelGroupSep(line, p + RunLen(line, p, Space))

\* re.search(label_pattern, line, re.I).group(1), or Null
LabelFound(line, i) ==
    IF MatchesAtI(line, i, NameLabel) THEN LabelGroupAfter(line, i + Len(NameLabel)) ELSE Null
LabelScan(line) ==
    LabelFound(line, First({i \in 1..Len(line) : LabelFound(line, i) # Null}, Len(line) + 1))

\* re.sub(r"\d+", "", match.group(1)).strip(), <<>> without a match
LabelClean(g) == IF g = Null THEN <<>> ELSE Strip(Delete(g, Digits))
LabelName(line) == LabelClean(LabelScan(line))

\* the index of the first header line the labelled strategy accepts, or 0
LabelledLine(lines) ==
    First({i \in 1..Min(HeaderLines, Len(lines)) : is_valid_candidate(LabelName(lines[i]), <<>>)}, 0)

\* STRATEGY 2
\* next((line for line in lines[:20] if entity_text in line), ""), as an index, or 0
SourceLine(lines, entity_text) ==
    First({i \in 1..Min(HeaderLines, Len(lines)) : Contains(lines[i], entity_text)}, 0)

FullLineClean(source_line) == Strip(CollapseBlanks(MapOutside(source_line, Letters \cup Space, " ")))
LettersOnly(s) == Strip(Keep(s, Letters \cup Space))

\* what one PERSON entity adds to candidates: <<[name, src, raw]>> or <<>>
EntityChoose(entity_text, src, source_line, full_line_clean) ==
    IF is_valid_candidate(full_line_clean, source_line)
    THEN <<[name |-> full_line_clean, src |-> src, raw |-> FALSE]>>
    ELSE IF is_valid_candidate(LettersOnly(entity_text), source_line)
    THEN <<[name |-> entity_text, src |-> src, raw |-> TRUE]>>
    ELSE <<>>
EntityOn(entity_text, src, source_line) ==
    EntityChoose(entity_text, src, source_line, FullLineClean(source_line))
EntityFrom(lines, entity_text, src) ==
    EntityOn(entity_text, src, IF src = 0 THEN <<>> ELSE lines[src])
EntityCandidate(lines, ent) == EntityFrom(lines, Strip(ent), SourceLine(lines, Strip(ent)))

RECURSIVE EntityCandidates(_, _)
EntityCandidates(lines, ents) ==
    IF ents = <<>> THEN <<>>
    ELSE EntityCandidate(lines, Head(ents)) \o EntityCandidates(lines, Tail(ents))

\* STRATEGY 3
IsTitleWord(w) == w[1] \in Upper /\ \A i \in 2..Len(w) : w[i] \in Lower
TitleWords(ws) == ws # <<>> /\ \A i \in 1..Len(ws) : IsTitleWord(ws[i])
istitle(t) == TitleWords(Split(t, 1))
isupper(t) == (\E i \in 1..Len(t) : t[i] \in Letters) /\ \A i \in 1..Len(t) : t[i] \notin Lower
title(t) == [i \in 1..Len(t) |-> IF Ch(t, i - 1) \in Letters THEN ToLower(t[i]) ELSE ToUpper(t[i])]

HeuristicClean(line, clean_text) ==
    /\ is_valid_candidate(clean_text, line)
    /\ \A i \in 1..Len(line) : line[i] \notin LineForbidden
    /\ (istitle(clean_text) \/ isupper(clean_text))
HeuristicOk(line) == HeuristicClean(line, LettersOnly(line))

\* the index of the first of the top lines the heuristic accepts, or 0
HeuristicLine(lines) == First({i \in 1..Min(HeuristicLines, Len(lines)) : HeuristicOk(lines[i])}, 0)

\* STRATEGY 4
capitalize(w) == [i \in 1..Len(w) |-> IF i = 1 THEN ToUpper(w[i]) ELSE ToLower(w[i])]
CapitalizeAll(ws) == [i \in 1..Len(ws) |-> capitalize(ws[i])]

\* local = email.split("@", 1)[0]; re.sub(r"[._]+", " ", local); re.sub(r"\d+", "", local).strip();
\* " ".join(w.capitalize() for w in local.split())
EmailName(email) ==
    Join(CapitalizeAll(Split(Strip(Delete(CollapseRuns(SubSeq(email, 1, RunLenNot(email, 1, {"@"})),
                                                       {".", "_"}, " "),
                                         Digits)), 1)), <<" ">>)

EmailOk(email) == email # Null /\ email # <<>> /\ is_valid_candidate(EmailName(email), <<>>)

\* the cascade over what the strategies found: the name, the strategy it came
\* by and the header line it was taken from (0 when from none)
Resolve(lines, labelled, candidates, heuristic, email) ==
    IF labelled # 0
    THEN [name |-> LabelName(lines[labelled]), via |-> "label", src |-> labelled]
    ELSE IF candidates # <<>>
    THEN [name |-> candidates[1].name, via |-> IF candidates[1].raw THEN "entity" ELSE "entity_line",
          src |-> candidates[1].src]
    ELSE IF heuristic # 0
    THEN [name |-> title(LettersOnly(lines[heuristic])), via |-> "heuristic", src |-> heuristic]
    ELSE IF EmailOk(email)
    THEN [name |-> EmailName(email), via |-> "email", src |-> 0]
    ELSE [name |-> Null, via |-> "none", src |-> 0]

Cascade(lines, email, ents) ==
    Resolve(lines, LabelledLine(lines), EntityCandidates(lines, ents), HeuristicLine(lines), email)

\* extract_name(text, email) with doc.ents = ents, the PERSON entities in document order
extract_name(t, email, ents) == Cascade(NonBlankLines(t), email, ents)

(***************************************************************************)
(* Texts around a phone number                                             *)
(***************************************************************************)
\* no document: the extractor is applied to the text itself
NoDoc == [ext |-> "", read |-> <<>>, failed |-> FALSE]

MaxPhoneSegs == 4
Mobile == <<"9", "8", "7", "6", "5", "4", "3", "2", "1", "0">>
PhoneSegs == {Mobile, <<"1", "2", "3", "4", "5", "6", "7", "8", "9", "0">>, <<"1", "2", "3", "4", "5">>, <<"+", "9", "1">>, <<"0">>, <<"T", "e", "l">>, <<"c", "a", "l", "l">>, <<":">>, <<" ">>, <<"-">>, <<"(">>, <<"a", "b">>}

InitPhone ==
    /\ text = <<>>
    /\ nseg = 0
    /\ pad = 0
    /\ pc = "build"
    /\ res = [mobile |-> Null]
    /\ doc = NoDoc
    /\ ner = <<>>
    /\ calls = <<>>

AppendPhoneSeg ==
    /\ pc = "build"
    /\ nseg < MaxPhoneSegs
    /\ \E s \in PhoneSegs : text' = text \o s
    /\ nseg' = nseg + 1
    /\ UNCHANGED <<pad, pc, res, doc, ner, calls>>

CallExtractPhone ==
    /\ pc = "build"
    /\ pc' = "done"
    /\ res' = [mobile |-> extract_phone(text)]
    /\ UNCHANGED <<text, nseg, pad, doc, ner, calls>>

NextPhone == AppendPhoneSeg \/ CallExtractPhone

SpecPhone == InitPhone /\ [][NextPhone]_vars

(***************************************************************************)
(* Date strings: tokens and separators in turn, after an optional label    *)
(***************************************************************************)
MaxDobTokens == 3
DobStarts == {<<>>, <<"D", "O", "B", ":", " ">>}
DobTokens == {<<"1", "2">>, <<"5">>, <<"2", "9">>, <<"0", "2">>, <<"F", "e", "b">>, <<"M", "a", "y">>, <<"1", "9", "9", "0">>, <<"2", "0", "0", "0">>, <<"1", "9", "0", "0">>}
DobSeps == {<<"/">>, <<"-">>, <<".">>, <<" ">>}

InitDob ==
    /\ text \in DobStarts
    /\ nseg = 0
    /\ pad = 0
    /\ pc = "build"
    /\ res = [op |-> "none", raw |-> Null, dob |-> Null, again |-> Null]
    /\ doc = NoDoc
    /\ ner = <<>>
    /\ calls = <<>>

AppendDobSeg ==
    /\ pc = "build"
    /\ nseg < 2 * MaxDobTokens - 1
    /\ \E s \in IF nseg % 2 = 0 THEN DobTokens ELSE DobSeps : text' = text \o s
    /\ nseg' = nseg + 1
    /\ UNCHANGED <<pad, pc, res, doc, ner, calls>>

\* normalize_dob applied to the text as it stands
CallNormalizeDob ==
    /\ pc = "build"
    /\ nseg % 2 = 1
    /\ pc' = "done"
    /\ res' = [op |-> "normalize", raw |-> text, dob |-> normalize_dob(text), again |-> Null]
    /\ UNCHANGED <<text, nseg, pad, doc, ner, calls>>

\* extract_dob, then normalize_dob on what it found, as extract_entities does
DobResult(raw_dob) == [op |-> "extract", raw |-> raw_dob, dob |-> OrNA(normalize_dob(raw_dob)), again |-> Null]
CallExtractDob ==
    /\ pc = "build"
    /\ nseg % 2 = 1
    /\ pc' = "done"
    /\ res' = DobResult(extract_dob(text))
    /\ UNCHANGED <<text, nseg, pad, doc, ner, calls>>

\* normalize_dob applied to its own output
Renormalize ==
    /\ pc = "done"
    /\ res.dob \notin {Null, NA}
    /\ pc' = "again"
    /\ res' = [res EXCEPT !.again = normalize_dob(res.dob)]
    /\ UNCHANGED <<text, nseg, pad, doc, ner, calls>>

NextDob == AppendDobSeg \/ CallNormalizeDob \/ CallExtractDob \/ Renormalize

SpecDob == InitDob /\ [][NextDob]_vars

(***************************************************************************)
(* Header texts: lines from a palette, blocks of filler lines, the PERSON  *)
(* entities the language model may find in the header, an email            *)
(***************************************************************************)
MaxLines == 3
MaxPads == 1
MaxEnts == 2

NameLine == <<"N", "a", "m", "e", ":", " ", "J", "o", "h", "n", " ", "S", "m", "i", "t", "h">>
MotherLine == <<"M", "o", "t", "h", "e", "r", ":", " ", "N", "i", "c", "o", "l", "e", " ", "F", "e", "r", "n", "a", "n", "d", "e", "s">>
MotherNameLine == <<"M", "o", "t", "h", "e", "r", " ", "N", "a", "m", "e", ":", " ", "N", "i", "c", "o", "l", "e", " ", "F", "e", "r", "n", "a", "n", "d", "e", "s">>
JohnSmith == <<"J", "o", "h", "n", " ", "S", "m", "i", "t", "h">>
NicoleFernandes == <<"N", "i", "c", "o", "l", "e", " ", "F", "e", "r", "n", "a", "n", "d", "e", "s">>
JohnDoe == <<"J", "o", "h", "n", " ", "D", "o", "e">>
JohnDoeEmail == <<"j", "o", "h", "n", ".", "d", "o", "e", "9", "9", "@", "e", "x", "a", "m", "p", "l", "e", ".", "c", "o", "m">>

NameLines == {NameLine, MotherLine, MotherNameLine, <<"F", "u", "l", "l", " ", "N", "a", "m", "e", " ", "-", " ", "J", "a", "n", "e", " ", "R", "o", "e">>, <<"C", "a", "n", "d", "i", "d", "a", "t", "e", " ", "N", "a", "m", "e", ":", " ", "A", "l">>,
              <<"J", "o", "h", "n", " ", "S", "m", "i", "t", "h", ",", " ", "J", "r", " ", "4", "2", " ", "B", "a", "k", "e", "r", " ", "R", "o", "w">>, <<"J", "a", "n", "e", " ", "R", "o", "e">>, <<"R", "E", "S", "U", "M", "E">>}
FillerLine == <<"z", "z">>
EntPalette == {JohnSmith, NicoleFernandes, <<"J", "o", "h", "n", " ", "S", "m", "i", "t", "h", ",", " ", "J", "r">>, <<"J", "a", "n", "e", " ", "R", "o", "e">>, <<"B", "a", "k", "e", "r", " ", "R", "o", "w">>}
EmailInputs == {Null, JohnDoeEmail, <<"i", "n", "f", "o", "@", "e", "x", ".", "i", "o">>}

AddLine(t, l) == IF t = <<>> THEN l ELSE t \o <<"\n">> \o l

AddFiller(t, n) == Join((IF t = <<>> THEN <<>> ELSE <<t>>) \o [i \in 1..n |-> FillerLine], <<"\n">>)

\* the entity e stands at position p of the header text, between token boundaries
Occurs(t, e, p) ==
    /\ p + Len(e) - 1 <= Len(t)
    /\ SubSeq(t, p, p + Len(e) - 1) = e
    /\ Ch(t, p - 1) \notin Word
    /\ Ch(t, p + Len(e)) \notin Word

\* what doc.ents may be: up to n entities of the palette that stand in the
\* header text from position from on, in document order, none overlapping another
RECURSIVE EntSeqs(_, _, _)
EntSeqs(header, from, n) ==
    IF n = 0 THEN {<<>>}
    ELSE {<<>>} \cup
         UNION {{<<ep[1]>> \o rest : rest \in EntSeqs(header, ep[2] + Len(ep[1]), n - 1)} :
                ep \in {x \in EntPalette \X (from..Len(header)) : Occurs(header, x[1], x[2])}}

InitName ==
    /\ text = <<>>
    /\ nseg = 0
    /\ pad = 0
    /\ pc = "build"
    /\ res = [out |-> [name |-> Null, via |-> "none", src |-> 0], email |-> Null]
    /\ doc = NoDoc
    /\ ner = <<>>
    /\ calls = <<>>

AppendLine ==
    /\ pc = "build"
    /\ nseg < MaxLines
    /\ \E l \in NameLines : text' = AddLine(text, l)
    /\ nseg' = nseg + 1
    /\ UNCHANGED <<pad, pc, res, doc, ner, calls>>

\* as many filler lines as the header has lines
AppendFiller ==
    /\ pc = "build"
    /\ pad < MaxPads
    /\ text' = AddFiller(text, HeaderLines)
    /\ pad' = pad + 1
    /\ UNCHANGED <<nseg, pc, res, doc, ner, calls>>

CallExtractName ==
    /\ pc = "build"
    /\ \E email \in EmailInputs, found \in EntSeqs(HeaderText(text), 1, MaxEnts) :
          /\ ner' = found
          /\ res' = [out |-> extract_name(text, email, found), email |-> email]
    /\ pc' = "done"
    /\ UNCHANGED <<text, nseg, pad, doc, calls>>

NextName == AppendLine \/ AppendFiller \/ CallExtractName

SpecName == InitName /\ [][NextName]_vars

(***************************************************************************)
(* read_any_file: each strategy either reads the file or fails; what it    *)
(* got is the text of the pages or paragraphs it went through before       *)
(***************************************************************************)
DocxMin == 10
Exts == {".pdf", ".docx", ".txt"}

\* the first line of a text, with its line break: what a strategy got that
\* failed after the first page
FirstPage(t) == SubSeq(t, 1, Min(Len(t), RunLenNot(t, 1, {"\n"}) + 1))

\* what one strategy may make of a file of content t
Outcomes(t) ==
    { [failed |-> FALSE, got |-> t], [failed |-> FALSE, got |-> <<>>],
      [failed |-> TRUE, got |-> <<>>], [failed |-> TRUE, got |-> FirstPage(t)] }

\* read_pdf: the pages pdfplumber got are kept when it fails; PyPDF2 is tried,
\* when it was imported, if they are blank
PdfText(got, second, available) ==
    Strip(IF Strip(got) = <<>> /\ available THEN got \o second.got ELSE got)
read_pdf(first, second, available) == PdfText(first.got, second, available)

\* read_docx_xml, read_docx_fallback: "" when the strategy fails
read_docx_xml(first) == IF first.failed THEN <<>> ELSE first.got
read_docx_fallback(second) == IF second.failed THEN <<>> ELSE second.got

DocxText(xml_text, second) == IF Len(xml_text) < DocxMin THEN read_docx_fallback(second) ELSE xml_text

\* the plain read of any other file: "" when it fails
ReadText(first) == IF first.failed THEN <<>> ELSE first.got

read_any_file(ext, first, second, available) ==
    IF ext = ".pdf" THEN read_pdf(first, second, available)
    ELSE IF ext = ".docx" THEN DocxText(read_docx_xml(first), second)
    ELSE ReadText(first)

(***************************************************************************)
(* process_resume_file and extract_entities, step by step                  *)
(***************************************************************************)
MinChars == 30
NoReadableError == "No readable text found"

\* the test of the length on the text as it was read, blanks included
Untrimmed(t) == t = <<>> \/ Len(t) < MinChars
\* not text or len(text.strip()) < 30
NoReadableText(t) == t = <<>> \/ Len(Strip(t)) < MinChars

\* the failure leaves process_resume_file
Propagate(e) == [kind |-> "raised", name |-> Null, email |-> Null, mobile |-> Null, dob |-> Null,
                 gender |-> Null, error |-> e]
\* except Exception as e: return {"error": str(e)}
Handle(e) == [kind |-> "error", name |-> Null, email |-> Null, mobile |-> Null, dob |-> Null,
              gender |-> Null, error |-> e]

\* the locals of extract_entities before its first statement
Pending == [kind |-> "pending", name |-> Null, email |-> Null, mobile |-> Null, dob |-> Null,
            gender |-> Null, error |-> ""]

\* the extractor each step of extract_entities calls
Stages == <<"dob", "name", "email", "mobile", "gender">>
Extractor == [dob |-> "extract_dob", name |-> "extract_name", email |-> "extract_email",
              mobile |-> "extract_phone", gender |-> "extract_gender"]

MaxParts == 3
DocParts == {<<"j", "o", "h", "n", ".", "d", "o", "e", "9", "9", "@", "e", "x", "a", "m", "p", "l", "e", ".", "c", "o", "m", "\n">>, <<"D", "O", "B", ":", " ", "1", "2", "/", "0", "5", "/", "1", "9", "9", "0", "\n">>, <<"B", "o", "r", "n", " ", "3", "1", "/", "0", "2", "/", "1", "9", "9", "0", "\n">>,
             <<"P", "h", " ", "9", "8", "7", "6", "5", "4", "3", "2", "1", "0", " ", "M", "a", "l", "e", "\n">>, <<"F", "e", "m", "a", "l", "e", ".">>, <<" ", " ", " ", " ", " ", " ">>, <<"N", "a", "m", "e", ":", " ", "J", "o", "h", "n", " ", "S", "m", "i", "t", "h", "\n">>}

Init ==
    /\ text = <<>>
    /\ nseg = 0
    /\ pad = 0
    /\ pc = "build"
    /\ res = [kind |-> "none", name |-> Null, email |-> Null, mobile |-> Null, dob |-> Null,
              gender |-> Null, error |-> ""]
    /\ doc = NoDoc
    /\ ner = <<>>
    /\ calls = <<>>

\* the content of the file
AppendPart ==
    /\ pc = "build"
    /\ nseg < MaxParts
    /\ \E s \in DocParts : text' = text \o s
    /\ nseg' = nseg + 1
    /\ UNCHANGED <<pad, pc, res, doc, ner, calls>>

\* text = read_any_file(file_path)
ReadAnyFile ==
    /\ pc = "build"
    /\ \E ext \in Exts, first \in Outcomes(text), second \in Outcomes(text), available \in BOOLEAN :
          doc' = [ext |-> ext, read |-> read_any_file(ext, first, second, available),
                  failed |-> first.failed]
    /\ pc' = "guard"
    /\ UNCHANGED <<text, nseg, pad, res, ner, calls>>

\* if not text or len(text.strip()) < 30: return {"error": "No readable text found"}
RejectUnreadable ==
    /\ pc = "guard"
    /\ NoReadableText(doc.read)
    /\ pc' = "done"
    /\ res' = Handle(NoReadableError)
    /\ UNCHANGED <<text, nseg, pad, doc, ner, calls>>

\* return extract_entities(text)
EnterExtractEntities ==
    /\ pc = "guard"
    /\ ~NoReadableText(doc.read)
    /\ pc' = "dob"
    /\ res' = Pending
    /\ UNCHANGED <<text, nseg, pad, doc, ner, calls>>

\* raw_dob = extract_dob(text); dob = normalize_dob(raw_dob) or "NA"
ExtractDob ==
    /\ pc = "dob"
    /\ res' = [res EXCEPT !.dob = DobField(doc.read)]
    /\ calls' = Append(calls, Extractor.dob)
    /\ pc' = "name"
    /\ UNCHANGED <<text, nseg, pad, doc, ner>>

\* "name": extract_name(text), the email left at its default
ExtractName ==
    /\ pc = "name"
    /\ \E found \in EntSeqs(HeaderText(doc.read), 1, MaxEnts) :
          /\ ner' = found
          /\ res' = [res EXCEPT !.name = extract_name(doc.read, Null, found).name]
    /\ calls' = Append(calls, Extractor.name)
    /\ pc' = "email"
    /\ UNCHANGED <<text, nseg, pad, doc>>

\* "email": extract_email(text)
ExtractEmail ==
    /\ pc = "email"
    /\ res' = [res EXCEPT !.email = extract_email(doc.read)]
    /\ calls' = Append(calls, Extractor.email)
    /\ pc' = "mobile"
    /\ UNCHANGED <<text, nseg, pad, doc, ner>>

\* "mobile": extract_phone(text)
ExtractPhone ==
    /\ pc = "mobile"
    /\ res' = [res EXCEPT !.mobile = extract_phone(doc.read)]
    /\ calls' = Append(calls, Extractor.mobile)
    /\ pc' = "gender"
    /\ UNCHANGED <<text, nseg, pad, doc, ner>>

\* "gender": extract_gender(text), and the record is returned
ExtractGender ==
    /\ pc = "gender"
    /\ res' = [res EXCEPT !.gender = extract_gender(doc.read), !.kind = "record"]
    /\ calls' = Append(calls, Extractor.gender)
    /\ pc' = "done"
    /\ UNCHANGED <<text, nseg, pad, doc, ner>>

\* the extractor of the current step raises: except Exception as e
Raise ==
    /\ pc \in {Stages[i] : i \in 1..Len(Stages)}
    /\ calls' = Append(calls, Extractor[pc])
    /\ res' = Handle("failure in " \o Extractor[pc])
    /\ pc' = "done"
    /\ UNCHANGED <<text, nseg, pad, doc, ner>>

Next ==
    \/ AppendPart
    \/ ReadAnyFile
    \/ RejectUnreadable
    \/ EnterExtractEntities
    \/ ExtractDob
    \/ ExtractName
    \/ ExtractEmail
    \/ ExtractPhone
    \/ ExtractGender
    \/ Raise

Spec == Init /\ [][Next]_vars

(***************************************************************************)
(* Properties                                                              *)
(***************************************************************************)

\* the four strategies alone: what each yields, Null when it yields nothing
FromLabel(lines, i) == IF i = 0 THEN Null ELSE LabelName(lines[i])
FromEntities(candidates) == IF candidates = <<>> THEN Null ELSE candidates[1].name
FromHeuristic(lines, i) == IF i = 0 THEN Null ELSE title(LettersOnly(lines[i]))
Strategy1(lines) == FromLabel(lines, LabelledLine(lines))
Strategy2(lines, found) == FromEntities(EntityCandidates(lines, found))
Strategy3(lines) == FromHeuristic(lines, HeuristicLine(lines))
Strategy4(email) == IF EmailOk(email) THEN EmailName(email) ELSE Null

\* the valid mobile number stands in the text as a run of digits of its own
HasMobile(t) ==
    \E i \in 1..Len(t) :
        /\ i + MobileLen - 1 <= Len(t)
        /\ SubSeq(t, i, i + MobileLen - 1) = Mobile
        /\ Ch(t, i - 1) \notin Digits
        /\ Ch(t, i + MobileLen) \notin Digits

\* the digits of the candidate extract_phone normalizes: of group 1 of the
\* labelled match, else of the first run of digits; <<>> without a candidate
FirstRun(runs) == IF runs = <<>> THEN <<>> ELSE Keep(runs[1], Digits)
CandidateDigits(t) ==
    IF LabelledPhone(t) # <<>> THEN Keep(LabelledPhone(t), Digits)
    ELSE FirstRun(PhoneRuns(MapOutside(t, Digits \cup {"+"}, " "), 1))

\* C1: extract_phone returns the ten digits of a valid mobile number (first
\* digit 6 to 9) that stands in the text among other digit runs, labels and
\* separators, and returns null when the phone candidate starts with a digit 0 to 5.
C1_ExtractPhoneContract ==
    pc = "done" =>
        /\ HasMobile(text) => res.mobile = Mobile
        /\ (CandidateDigits(text) # <<>> /\ CandidateDigits(text)[1] \notin MobileFirst)
               => res.mobile = Null

IsIsoDate(d) ==
    /\ Len(d) = 10
    /\ d[5] = "-" /\ d[8] = "-"
    /\ \A i \in {1, 2, 3, 4, 6, 7, 9, 10} : d[i] \in Digits
    /\ Num4(d, 1) >= MinYear
    /\ Num2(d, 6) \in 1..12
    /\ Num2(d, 9) \in 1..DaysInMonth(Num4(d, 1), Num2(d, 6))

IsMobile(m) ==
    /\ Len(m) = 10
    /\ \A i \in 1..10 : m[i] \in Digits
    /\ m[1] \in {"6", "7", "8", "9"}

Genders == {<<"M", "a", "l", "e">>, <<"F", "e", "m", "a", "l", "e">>, <<"N", "o", "t", " ", "S", "p", "e", "c", "i", "f", "i", "e", "d">>}

\* C2: in every record process_resume_file returns, dob is a valid ISO date
\* YYYY-MM-DD or the literal NA (never null, never the raw match), mobile is
\* null or ten digits of which the first is 6, 7, 8 or 9, and gender is one of
\* Male, Female, Not Specified.
C2_FieldDomains ==
    res.kind = "record" =>
        /\ res.dob = NA \/ IsIsoDate(res.dob)
        /\ res.mobile = Null \/ IsMobile(res.mobile)
        /\ res.gender \in Genders

\* a record was returned for a text with a date that parses and a mobile number
C2_Witness ==
    /\ pc = "done"
    /\ res.kind = "record"
    /\ IsIsoDate(res.dob)
    /\ extract_dob(doc.read) # res.dob
    /\ res.mobile = Mobile
    /\ res.gender = <<"M", "a", "l", "e">>

WouldBeNames == {JohnSmith, NicoleFernandes, <<"J", "a", "n", "e", " ", "R", "o", "e">>}

\* the name n stands in the text, and only on header lines that hold a blocklisted word
OnlyOnBlockedLines(lines, n) ==
    /\ \E i \in 1..Len(lines) : Contains(lines[i], n)
    /\ \A i \in 1..Len(lines) : Contains(lines[i], n) => i <= HeaderLines /\ ContextBlocked(lines[i])

\* C3 as stated: a would-be name whose only occurrences are on header lines
\* that also hold a blocklisted word is never returned by extract_name,
\* whichever strategy produced the result.
C3_BlockedLineNeverNamed ==
    pc = "done" =>
        \A n \in WouldBeNames : OnlyOnBlockedLines(NonBlankLines(text), n) => res.out.name # n

\* C3, amended: a name that the named-entity strategy or the line heuristic
\* took from a header line is never taken from a line that holds a blocklisted
\* word; the labelled strategy and the email strategy check no context line.
C3_ContextCheckedStrategies ==
    (pc = "done" /\ res.out.via \in {"entity", "entity_line", "heuristic"} /\ res.out.src # 0)
        => ~ContextBlocked(NonBlankLines(text)[res.out.src])

\* the model found the name on the line of the mother and it was passed over
\* for an entity of a line without a blocklisted word
C3_Witness ==
    /\ pc = "done"
    /\ Len(ner) = 2
    /\ ner[1] = NicoleFernandes
    /\ Contains(text, MotherLine)
    /\ res.out.via = "entity"
    /\ res.out.name # NicoleFernandes

\* C4 as stated: a text with the line of the labelled name John Smith resolves
\* to John Smith through the labelled strategy, whatever its other lines and
\* wherever the labelled line stands.
C4_LabelledAnywhere ==
    (pc = "done" /\ \E i \in 1..Len(SplitLines(text, 1)) : SplitLines(text, 1)[i] = NameLine)
        => res.out.name = JohnSmith /\ res.out.via = "label"

\* C4, amended: when the line of the labelled name John Smith is one of the
\* first 20 non-blank lines and no header line before it holds a label with a
\* valid name, extract_name returns John Smith through the labelled strategy
\* from that line, whatever the entities, the email and the other lines.
FirstLabelIs(lines, i, out) ==
    (/\ lines[i] = NameLine
     /\ \A j \in 1..i - 1 : ~is_valid_candidate(LabelName(lines[j]), <<>>))
        => out = [name |-> JohnSmith, via |-> "label", src |-> i]
LabelledWins(lines, out) == \A i \in 1..Min(HeaderLines, Len(lines)) : FirstLabelIs(lines, i, out)
C4_LabelledInHeader == pc = "done" => LabelledWins(NonBlankLines(text), res.out)

\* the labelled line stands below other lines, an entity was found and an
\* email given, and the label won
C4_Witness ==
    /\ pc = "done"
    /\ res.out = [name |-> JohnSmith, via |-> "label", src |-> 3]
    /\ ner # <<>>
    /\ res.email = JohnDoeEmail

\* C5: when the text holds the email of John Doe and the labelled, the
\* named-entity and the heuristic strategy find no valid name, the name of the
\* record process_resume_file returns is the email-derived John Doe.
C5_EmailDerivedName ==
    (/\ res.kind = "record"
     /\ res.email = JohnDoeEmail
     /\ Strategy1(NonBlankLines(doc.read)) = Null
     /\ Strategy2(NonBlankLines(doc.read), ner) = Null
     /\ Strategy3(NonBlankLines(doc.read)) = Null)
        => res.name = JohnDoe

Failures == {"failure in " \o Extractor[Stages[i]] : i \in 1..Len(Stages)}

\* C6: when the text the reader returned is empty or shorter than 30
\* characters after trimming, process_resume_file returns the error No
\* readable text found and no field extractor is called; when it has 30
\* characters or more after trimming, a record is returned unless an extractor failed.
C6_ShortTextGuard ==
    /\ (pc # "build" /\ Len(Strip(doc.read)) < MinChars)
           => calls = <<>> /\ (pc = "done" => res = Handle(NoReadableError))
    /\ (pc = "done" /\ Len(Strip(doc.read)) >= MinChars)
           => res.kind = "record" \/ (res.kind = "error" /\ res.error \in Failures)

\* a text of 30 characters or more as read, fewer after trimming, was rejected
C6_Witness ==
    /\ pc = "done"
    /\ Len(doc.read) >= MinChars
    /\ Len(Strip(doc.read)) < MinChars
    /\ res.error = NoReadableError

\* C7: process_resume_file never lets a failure through: whatever the file
\* type, whichever reader strategy or extractor fails, the call ends with a
\* record of five fields or with an error result; a failure in the reader
\* alone shows only as the error No readable text found.
C7_NoFaultPropagates ==
    pc = "done" =>
        /\ res.kind \in {"record", "error"}
        /\ res.kind = "record" => calls = [i \in 1..Len(Stages) |-> Extractor[Stages[i]]]
        /\ res.kind = "error" => res.error \in Failures \cup {NoReadableError}
        /\ (res.kind = "error" /\ calls = <<>>) => res.error = NoReadableError

\* the first reader strategy failed, the text came from the second, and an
\* extractor failed: the result is an error with the message of that failure
C7_Witness ==
    /\ pc = "done"
    /\ doc.failed
    /\ res.kind = "error"
    /\ res.error = "failure in extract_name"

\* C8: normalize_dob is idempotent on its output: when normalize_dob(r) is an
\* ISO date d, normalize_dob(d) is d again.
C8_NormalizeDobIdempotent == pc = "again" => res.again = res.dob

\* a date string that is not in ISO form was normalized, and its ISO form again
C8_Witness ==
    /\ pc = "again"
    /\ res.op = "normalize"
    /\ res.raw # res.dob
    /\ res.again = res.dob

\* C9: a raw string extract_dob returned that is a valid date in one of the
\* listed templates (day Month year, D/M/Y, D-M-Y, Y-M-D, D.M.Y) gives the
\* ISO form of that date as the dob of the record, not NA.
C9_TemplateShapes ==
    (pc = "done" /\ res.op = "extract" /\ res.raw # Null) =>
        \A k \in 1..Len(Formats) :
            strptime(res.raw, Formats[k]) # <<>> => res.dob = isoformat(strptime(res.raw, Formats[k]))

\* the first of the four results that is not null, null when all are
FirstResult(s1, s2, s3, s4) ==
    IF s1 # Null THEN s1 ELSE IF s2 # Null THEN s2 ELSE IF s3 # Null THEN s3 ELSE s4

CascadeResult ==
    FirstResult(Strategy1(NonBlankLines(text)), Strategy2(NonBlankLines(text), ner),
                Strategy3(NonBlankLines(text)), Strategy4(res.email))

\* two to four words, no blocklisted word, no digit, comma, @, / or bracket
WellFormedName(c) ==
    /\ Len(Split(c, 1)) >= 2 /\ Len(Split(c, 1)) <= 4
    /\ ~Blocked(Split(c, 1))
    /\ \A i \in 1..Len(c) : c[i] \notin Digits \cup {",", "@", "/", "(", ")"}

\* C10 as stated: extract_name returns the result of the first strategy, in
\* the order labelled, named-entity, heuristic, email, that yields a
\* candidate, null when none does, and every result that is not null has two
\* to four words and no blocklisted word, digit, comma, @, / or bracket.
C10_CascadeValidated ==
    pc = "done" =>
        /\ res.out.name = CascadeResult
        /\ res.out.name # Null => WellFormedName(res.out.name)

\* The order half of C10 taken alone: the result is that of the first strategy
\* with a candidate, and it is well formed once the raw text of an entity is
\* reduced to its letters.
C10_CascadeOrder ==
    pc = "done" =>
        /\ res.out.name = CascadeResult
        /\ res.out.name # Null =>
              WellFormedName(IF res.out.via = "entity" THEN LettersOnly(res.out.name) ELSE res.out.name)


=============================================================================
